---- MODULE Spec2Model ----
(***************************************************************************)
(* A model of script.js, the client-side script of the Hello World UK      *)
(* static page.  The script is a set of event handlers and timer callbacks *)
(* run one at a time on the page's single event loop.  Every handler and   *)
(* every callback is an operator from the page's state (a record of the    *)
(* variables below) to its state afterwards, and an action applies one of  *)
(* them.  Scheduled callbacks wait in `timers` with the time left until    *)
(* they are due; time passes by the Tick actions.  Durations are in        *)
(* milliseconds, as in the source.                                         *)
(***************************************************************************)
EXTENDS Integers, Sequences, FiniteSets, TLC

VARIABLES
    dataTheme,      \* the data-theme attribute of the root element
    storedTheme,    \* localStorage's "theme" entry (Null when the key is absent)
    themeToggle,    \* the #theme-toggle control: [innerHTML, ariaLabel, title]
    bodyClasses,    \* the class list of document.body
    scrolled,       \* whether a key's default action has scrolled the page
    timers,         \* pending setTimeout/setInterval callbacks, in scheduling order
    notifications,  \* every notification element created so far, in creation order
    featureItems,   \* the .feature-item elements by position: [active, ripples, relative]
    counter,        \* the [data-count] element and the variables of its closure
    timeDisplay,    \* the content of #current-time
    wallClock,      \* ms since the clock was mounted (what new Date() reads)
    heroFadeIn,     \* the positions in mainElements of the elements marked 'fade-in'
    animateIn,      \* the .animate-in elements: [animated, observed, reported, marks]
    rootStyle,      \* the two duration properties set on the root element's style
    load,           \* the markup, the environment and the progress of the load handler
    lastEvent,      \* history: the last user event and what its dispatch did
    lastTick,       \* history: the outcome of the last clock tick
    toggleClicks,   \* history: the number of activations of the theme toggle
    featureClicks,  \* history: the number of clicks on feature items
    closeClicks,    \* history: the number of close-button activations
    commitAge,      \* history: ms since the last theme commit (-1: none yet), capped
    startTheme,     \* history: the data-theme value initializeThemeToggle set
    visibilityState \* document.visibilityState: "visible" or "hidden"

vars == <<dataTheme, storedTheme, themeToggle, bodyClasses, scrolled, timers,
          notifications, featureItems, counter, timeDisplay, wallClock,
          heroFadeIn, animateIn, rootStyle, load,
          lastEvent, lastTick, toggleClicks, featureClicks, closeClicks,
          commitAge, startTheme, visibilityState>>

\* The state as a record, and the step to the state given as a record
State ==
    [dataTheme |-> dataTheme, storedTheme |-> storedTheme, themeToggle |-> themeToggle,
     bodyClasses |-> bodyClasses, scrolled |-> scrolled, timers |-> timers,
     notifications |-> notifications, featureItems |-> featureItems, counter |-> counter,
     timeDisplay |-> timeDisplay, wallClock |-> wallClock, heroFadeIn |-> heroFadeIn,
     animateIn |-> animateIn,
     rootStyle |-> rootStyle, load |-> load,
     lastEvent |-> lastEvent, lastTick |-> lastTick, toggleClicks |-> toggleClicks,
     featureClicks |-> featureClicks, closeClicks |-> closeClicks,
     commitAge |-> commitAge, startTheme |-> startTheme,
     visibilityState |-> visibilityState]

Becomes(s) ==
    /\ dataTheme' = s.dataTheme
    /\ storedTheme' = s.storedTheme
    /\ themeToggle' = s.themeToggle
    /\ bodyClasses' = s.bodyClasses
    /\ scrolled' = s.scrolled
    /\ timers' = s.timers
    /\ notifications' = s.notifications
    /\ featureItems' = s.featureItems
    /\ counter' = s.counter
    /\ timeDisplay' = s.timeDisplay
    /\ wallClock' = s.wallClock
    /\ heroFadeIn' = s.heroFadeIn
    /\ animateIn' = s.animateIn
    /\ rootStyle' = s.rootStyle
    /\ load' = s.load
    /\ lastEvent' = s.lastEvent
    /\ lastTick' = s.lastTick
    /\ toggleClicks' = s.toggleClicks
    /\ featureClicks' = s.featureClicks
    /\ closeClicks' = s.closeClicks
    /\ commitAge' = s.commitAge
    /\ startTheme' = s.startTheme
    /\ visibilityState' = s.visibilityState

Is(s) ==
    /\ dataTheme = s.dataTheme
    /\ storedTheme = s.storedTheme
    /\ themeToggle = s.themeToggle
    /\ bodyClasses = s.bodyClasses
    /\ scrolled = s.scrolled
    /\ timers = s.timers
    /\ notifications = s.notifications
    /\ featureItems = s.featureItems
    /\ counter = s.counter
    /\ timeDisplay = s.timeDisplay
    /\ wallClock = s.wallClock
    /\ heroFadeIn = s.heroFadeIn
    /\ animateIn = s.animateIn
    /\ rootStyle = s.rootStyle
    /\ load = s.load
    /\ lastEvent = s.lastEvent
    /\ lastTick = s.lastTick
    /\ toggleClicks = s.toggleClicks
    /\ featureClicks = s.featureClicks
    /\ closeClicks = s.closeClicks
    /\ commitAge = s.commitAge
    /\ startTheme = s.startTheme
    /\ visibilityState = s.visibilityState

Null == "<null>"

Min(a, b) == IF a < b THEN a ELSE b

(***************************************************************************)
(* Timers.  A timer is [kind, rem, delay, theme, id]: the callback, the ms *)
(* left, the delay it was scheduled with, and the callback's captured      *)
(* variables (newTheme for a theme commit; the notification or the feature *)
(* item for their callbacks).                                              *)
(***************************************************************************)
Timer(kind, delay, theme, id) ==
    [kind |-> kind, rem |-> delay, delay |-> delay, theme |-> theme, id |-> id]

RemoveAt(s, i) == [j \in 1..(Len(s) - 1) |-> IF j < i THEN s[j] ELSE s[j + 1]]

\* No handler is running: the load handler has returned or was ended by an error
Idle == load.pc \in {"done", "aborted"}

\* Timer i may run now: it is due, and no timer scheduled before it with a
\* delay no longer than its own is still waiting (the order setTimeout
\* guarantees).  Two due timers not ordered by that rule run in either order.
Due(i) ==
    /\ Idle
    /\ timers[i].rem = 0
    /\ \A j \in 1..(i - 1) : ~(timers[j].rem = 0 /\ timers[j].delay <= timers[i].delay)

(***************************************************************************)
(* Theme toggle                                                            *)
(***************************************************************************)
ThemeCommitDelay == 50
ThemeTransitionDelay == 300

\* What localStorage may hold under "theme" when the page loads: nothing, the
\* two values the script writes, the empty string, and a value it never wrote.
StoredValues == {Null, "light", "dark", "", "blue"}

\* Bound: the number of theme-toggle activations explored.
MaxToggleClicks == 3

\* updateThemeToggleIcon(theme): the icon (sun or moon) and the label
updateThemeToggleIcon(theme) ==
    [innerHTML |-> IF theme = "dark" THEN "sun" ELSE "moon",
     ariaLabel |-> IF theme = "dark" THEN "Switch to light mode" ELSE "Switch to dark mode",
     title |-> IF theme = "dark" THEN "Switch to light mode" ELSE "Switch to dark mode"]

\* localStorage.getItem('theme') || 'light': null and "" are falsy
SavedTheme(stored) == IF stored = Null \/ stored = "" THEN "light" ELSE stored

\* currentTheme === 'dark' ? 'light' : 'dark'
NewTheme(currentTheme) == IF currentTheme = "dark" THEN "light" ELSE "dark"

\* initializeThemeToggle() on state s
initializeThemeToggle(s) ==
    [s EXCEPT !.dataTheme = SavedTheme(s.storedTheme),
              !.themeToggle = updateThemeToggleIcon(SavedTheme(s.storedTheme)),
              !.startTheme = SavedTheme(s.storedTheme)]

\* the click listener of #theme-toggle
ThemeToggleClick(s) ==
    [s EXCEPT !.toggleClicks = @ + 1,
              !.bodyClasses = @ \cup {"theme-transition"},
              !.timers = Append(@, Timer("themeCommit", ThemeCommitDelay, NewTheme(s.dataTheme), 0))]

\* the 50ms callback without the setTimeout that removes the marker
ThemeCommitWithoutRemoval(s, i) ==
    [s EXCEPT !.dataTheme = s.timers[i].theme,
              !.storedTheme = s.timers[i].theme,
              !.themeToggle = updateThemeToggleIcon(s.timers[i].theme),
              !.timers = RemoveAt(@, i),
              !.commitAge = 0]

\* the 50ms callback (timer i): commit newTheme, schedule the marker's removal
ThemeCommitCallback(s, i) ==
    [s EXCEPT !.dataTheme = s.timers[i].theme,
              !.storedTheme = s.timers[i].theme,
              !.themeToggle = updateThemeToggleIcon(s.timers[i].theme),
              !.timers = Append(RemoveAt(@, i), Timer("themeTransitionEnd", ThemeTransitionDelay, "", 0)),
              !.commitAge = 0]

\* the 300ms callback (timer i): remove the transition marker
ThemeTransitionEndCallback(s, i) ==
    [s EXCEPT !.bodyClasses = @ \ {"theme-transition"},
              !.timers = RemoveAt(@, i)]

(***************************************************************************)
(* Notifications.  A notification is [message, type, inDocument,           *)
(* transform] and four history fields: age (ms since it was created),      *)
(* closeAge (ms since the first activation of its close button, -1: none), *)
(* offFor (ms its transform has been OffScreen without interruption) and   *)
(* slideOut (offFor at the moment it was removed, -1: not removed).        *)
(***************************************************************************)
OffScreen == "translateX(100%)"
OnScreen == "translateX(0)"

NotificationSlideInDelay == 100
NotificationSlideOutDelay == 300
NotificationAutoDismissDelay == 5000
WelcomeDelay == 1000
WelcomeMessage == "Welcome to Hello World UK! <flag>"

\* Bound: the number of close-button activations explored.
MaxCloseClicks == 3

NotificationLife == NotificationAutoDismissDelay + NotificationSlideOutDelay

\* the element showNotification creates, appends and styles
NewNotification(message, type) ==
    [message |-> message, type |-> type, inDocument |-> TRUE, transform |-> OffScreen,
     age |-> 0, closeAge |-> -1, offFor |-> 0, slideOut |-> -1]

\* showNotification(message, type): the element, its slide-in timer and its
\* auto-dismiss timer
showNotification(s, message, type) ==
    [s EXCEPT !.notifications = Append(@, NewNotification(message, type)),
              !.timers = @ \o <<Timer("notificationSlideIn", NotificationSlideInDelay, "",
                                      Len(s.notifications) + 1),
                                Timer("notificationAutoDismiss", NotificationAutoDismissDelay, "",
                                      Len(s.notifications) + 1)>>]

\* notification.style.transform = 'translateX(100%)'
SlideOut(n) ==
    [n EXCEPT !.transform = OffScreen,
              !.offFor = IF n.transform = OffScreen THEN n.offFor ELSE 0]

\* notification.remove()
Remove(n) ==
    [n EXCEPT !.inDocument = FALSE,
              !.slideOut = IF ~n.inDocument THEN n.slideOut
                           ELSE IF n.transform = OffScreen THEN n.offFor ELSE 0]

\* the 1000ms callback of the load handler (timer i)
WelcomeCallback(s, i) ==
    showNotification([s EXCEPT !.timers = RemoveAt(@, i)], WelcomeMessage, "success")

\* the 100ms callback (timer i): slide the notification in
NotificationSlideInCallback(s, i) ==
    [s EXCEPT !.notifications[s.timers[i].id].transform = OnScreen,
              !.notifications[s.timers[i].id].offFor = 0,
              !.timers = RemoveAt(@, i)]

\* the close listener looking its notification up in the document, where it
\* finds the first one, instead of holding it in its closure
NotificationCloseClickFirst(s, n) ==
    LET first == CHOOSE k \in DOMAIN s.notifications :
                    /\ s.notifications[k].inDocument
                    /\ \A j \in 1..(k - 1) : ~s.notifications[j].inDocument
    IN  [s EXCEPT !.closeClicks = @ + 1,
                  !.notifications[first] = [SlideOut(@) EXCEPT !.closeAge = IF @ < 0 THEN 0 ELSE @],
                  !.timers = Append(@, Timer("notificationRemove", NotificationSlideOutDelay, "",
                                             first))]

\* the click listener of notification n's close button
NotificationCloseClick(s, n) ==
    [s EXCEPT !.closeClicks = @ + 1,
              !.notifications[n] = [SlideOut(@) EXCEPT !.closeAge = IF @ < 0 THEN 0 ELSE @],
              !.timers = Append(@, Timer("notificationRemove", NotificationSlideOutDelay, "", n))]

\* the 5000ms callback without its inner setTimeout: the notification slides
\* out and is never removed
NotificationAutoDismissSlideOnly(s, i) ==
    IF s.notifications[s.timers[i].id].inDocument
    THEN [s EXCEPT !.notifications[s.timers[i].id] = SlideOut(@),
                   !.timers = RemoveAt(@, i)]
    ELSE [s EXCEPT !.timers = RemoveAt(@, i)]

\* the 5000ms callback (timer i): dismiss the notification if it is still in the document
NotificationAutoDismissCallback(s, i) ==
    IF s.notifications[s.timers[i].id].inDocument
    THEN [s EXCEPT !.notifications[s.timers[i].id] = SlideOut(@),
                   !.timers = Append(RemoveAt(@, i),
                                     Timer("notificationRemove", NotificationSlideOutDelay, "",
                                           s.timers[i].id))]
    ELSE [s EXCEPT !.timers = RemoveAt(@, i)]

\* the 300ms callback of either dismissal (timer i): remove the notification
NotificationRemoveCallback(s, i) ==
    [s EXCEPT !.notifications[s.timers[i].id] = Remove(@),
              !.timers = RemoveAt(@, i)]

(***************************************************************************)
(* Feature items.  Item i (0-based, as in the source) is [active, ripples, *)
(* relative]: the 'active' class, the ripple spans it holds, oldest first, *)
(* each [size, x, y], and whether its position/overflow styles were set.   *)
(* A click event is [clientX, clientY].                                    *)
(***************************************************************************)
RippleDuration == 600

\* Bound: the number of feature items on the page (one more than descriptors).
NumFeatureItems == 6
\* Bound: the number of feature-item activations explored.
MaxFeatureClicks == 2

features ==
    <<[title |-> "Modern Design", description |-> "Clean and contemporary UK-focused design"],
      [title |-> "Responsive Layout", description |-> "Perfect display on all devices"],
      [title |-> "Fast Loading", description |-> "Optimized for quick page loads"],
      [title |-> "Accessible", description |-> "Built with accessibility in mind"]>>

\* element.getBoundingClientRect() of feature item i in the page's layout
getBoundingClientRect(i) == [left |-> 20 + 100 * i, top |-> 300, width |-> 80, height |-> 60]

Max(a, b) == IF a > b THEN a ELSE b

\* the click element.click() dispatches, and the clicks a pointer can make on item i
SyntheticClick == [clientX |-> 0, clientY |-> 0]
PointerClicks(i) ==
    LET rect == getBoundingClientRect(i)
    IN  {[clientX |-> rect.left, clientY |-> rect.top],
         [clientX |-> rect.left + rect.width \div 2, clientY |-> rect.top + rect.height \div 2]}

\* createRippleEffect(element, event) on feature item i
createRippleEffect(s, i, event) ==
    LET rect == getBoundingClientRect(i)
        size == Max(rect.width, rect.height)
        ripple == [size |-> size,
                   x |-> event.clientX - rect.left - size \div 2,
                   y |-> event.clientY - rect.top - size \div 2]
    IN  [s EXCEPT !.featureItems[i].ripples = Append(@, ripple),
                  !.featureItems[i].relative = TRUE,
                  !.timers = Append(@, Timer("rippleRemove", RippleDuration, "", i))]

\* showFeatureDetails(index) looking the descriptor up at index modulo the
\* number of descriptors
showFeatureDetailsWrapping(s, index) ==
    showNotification(s, features[(index % Len(features)) + 1].title \o ": "
                            \o features[(index % Len(features)) + 1].description,
                     "info")

\* showFeatureDetails(index)
showFeatureDetails(s, index) ==
    IF index + 1 \in DOMAIN features
    THEN showNotification(s, features[index + 1].title \o ": " \o features[index + 1].description,
                          "info")
    ELSE s

\* this.classList.add('active') without the forEach that clears the others
HighlightWithoutClearing(items, i) == [items EXCEPT ![i].active = TRUE]

\* featureItems.forEach(fi => fi.classList.remove('active')); this.classList.add('active')
Highlight(items, i) == [j \in DOMAIN items |-> [items[j] EXCEPT !.active = (j = i)]]

\* the click listener of feature item i
FeatureItemClick(s, i, event) ==
    LET rippled == createRippleEffect(s, i, event)
        highlighted == [rippled EXCEPT !.featureItems = Highlight(@, i),
                                       !.featureClicks = @ + 1]
    IN  showFeatureDetails(highlighted, i)

\* the 600ms callback (timer t): remove the ripple, the oldest its item holds
RippleRemoveCallback(s, t) ==
    [s EXCEPT !.featureItems[s.timers[t].id].ripples = Tail(@),
              !.timers = RemoveAt(@, t)]

(***************************************************************************)
(* Numbers.  `current` and `increment` of a counter are IEEE 754 doubles:  *)
(* a quotient or a sum is the exact result rounded to 53 significant bits, *)
(* ties to even.  Every value the counter computes is at least 1/125 (more *)
(* than 2^-7) and so a multiple of 2^-59: a number is held exactly as the  *)
(* integer value * 2^59, a little-endian sequence of 16-bit limbs.         *)
(***************************************************************************)
Precision == 53
FractionBits == (Precision - 1) + 7
Base == 2^16

\* Bound: the largest data-count explored.
MaxTarget == 200

RECURSIVE BitLength(_)
BitLength(n) == IF n = 0 THEN 0 ELSE 1 + BitLength(n \div 2)

LimbBits == BitLength(Base - 1)
Limbs == (FractionBits + BitLength(2 * MaxTarget + 2)) \div LimbBits + 1
IntLimb == FractionBits \div LimbBits + 1
IntShift == FractionBits % LimbBits

\* the exact sum of two numbers, limb i upwards, with carry
RECURSIVE AddLimbs(_, _, _, _)
AddLimbs(a, b, i, carry) ==
    IF i > Limbs THEN <<>>
    ELSE <<(a[i] + b[i] + carry) % Base>>
             \o AddLimbs(a, b, i + 1, (a[i] + b[i] + carry) \div Base)

\* the quotient (limbs 1..i) and remainder of a number by a small integer d
RECURSIVE DivLimbs(_, _, _, _)
DivLimbs(a, d, i, rem) ==
    IF i = 0 THEN [q |-> <<>>, rem |-> rem]
    ELSE LET cur == rem * Base + a[i]
             rest == DivLimbs(a, d, i - 1, cur % d)
         IN  [q |-> Append(rest.q, cur \div d), rem |-> rest.rem]

RECURSIVE TopLimb(_, _)
TopLimb(a, i) == IF i = 0 \/ a[i] # 0 THEN i ELSE TopLimb(a, i - 1)

BigBitLength(a) ==
    LET k == TopLimb(a, Limbs) IN IF k = 0 THEN 0 ELSE LimbBits * (k - 1) + BitLength(a[k])

\* What an exact result leaves below the last held bit: 0 nothing, 1 less than
\* half of it, 2 half, 3 more than half.
Residue(rem, d) == IF rem = 0 THEN 0 ELSE IF 2 * rem < d THEN 1 ELSE IF 2 * rem = d THEN 2 ELSE 3

\* a (with `residue` below its last bit) rounded to Precision significant bits
RoundToNearestEven(a, residue) ==
    LET drop == BigBitLength(a) - Precision
        unit == 2^drop
        r == a[1] % unit
        half == unit \div 2
        odd == (a[1] \div unit) % 2 = 1
        up == IF drop = 0 THEN residue = 3 \/ (residue = 2 /\ odd)
              ELSE r > half \/ (r = half /\ (residue > 0 \/ odd))
        truncated == [a EXCEPT ![1] = a[1] - r]
    IN  IF BigBitLength(a) = 0 THEN a
        ELSE IF up THEN AddLimbs(truncated, [i \in 1..Limbs |-> IF i = 1 THEN unit ELSE 0], 1, 0)
        ELSE truncated

\* the double of an integer n
FromInteger(n) ==
    [i \in 1..Limbs |-> IF i = IntLimb THEN (n * 2^IntShift) % Base
                        ELSE IF i = IntLimb + 1 THEN (n * 2^IntShift) \div Base
                        ELSE 0]

\* n / d, a + b, Math.floor(a) and a < n in double arithmetic (n, d integers)
Divide(n, d) ==
    LET res == DivLimbs(FromInteger(n), d, Limbs, 0)
    IN  RoundToNearestEven(res.q, Residue(res.rem, d))

Add(a, b) == RoundToNearestEven(AddLimbs(a, b, 1, 0), 0)

Floor(a) == a[IntLimb] \div 2^IntShift + a[IntLimb + 1] * 2^(LimbBits - IntShift)

LessThan(a, n) == Floor(a) < n

(***************************************************************************)
(* Counters.  The [data-count] element and its closure: the attribute (a   *)
(* sequence of decimal digits), target, increment, current, the text shown *)
(* (-1: the markup's), whether its observer still observes it, what the    *)
(* observer last reported, the frame callbacks requested, and as history   *)
(* the number of updateCounter calls, the text shown before the last, and  *)
(* the number of calls made by the observer's callback (starts).           *)
(***************************************************************************)
CounterDuration == 2000
FrameStep == 16

\* Bound: the number of entries one observer callback may deliver.
MaxEntries == 3

\* parseInt of a string of decimal digits
RECURSIVE parseInt(_)
parseInt(digits) ==
    IF digits = <<>> THEN 0
    ELSE 10 * parseInt(SubSeq(digits, 1, Len(digits) - 1)) + digits[Len(digits)]

\* the decimal digits of a positive integer, as the markup writes it
RECURSIVE Digits(_)
Digits(n) == IF n < 10 THEN <<n>> ELSE Append(Digits(n \div 10), n % 10)

\* initializeCounters() for one element: the closure it creates
initializeCounters(dataCount) ==
    [dataCount |-> dataCount,
     target |-> parseInt(dataCount),
     increment |-> Divide(parseInt(dataCount), CounterDuration \div FrameStep),
     current |-> FromInteger(0),
     textContent |-> -1,
     observed |-> TRUE,
     reported |-> "none",
     frameRequests |-> 0,
     calls |-> 0,
     previous |-> -1,
     starts |-> 0]

\* a page with no [data-count] element
NoCounter ==
    [dataCount |-> <<>>, target |-> 0, increment |-> FromInteger(0), current |-> FromInteger(0),
     textContent |-> -1, observed |-> FALSE, reported |-> "none", frameRequests |-> 0,
     calls |-> 0, previous |-> -1, starts |-> 0]

\* updateCounter() without the branch that writes the target: every call
\* writes Math.floor(current)
updateCounterFloorOnly(c) ==
    LET current == Add(c.current, c.increment)
    IN  IF LessThan(current, c.target)
        THEN [c EXCEPT !.current = current,
                       !.previous = c.textContent,
                       !.textContent = Floor(current),
                       !.frameRequests = @ + 1,
                       !.calls = @ + 1]
        ELSE [c EXCEPT !.current = current,
                       !.previous = c.textContent,
                       !.textContent = Floor(current),
                       !.calls = @ + 1]

\* updateCounter()
updateCounter(c) ==
    LET current == Add(c.current, c.increment)
    IN  IF LessThan(current, c.target)
        THEN [c EXCEPT !.current = current,
                       !.previous = c.textContent,
                       !.textContent = Floor(current),
                       !.frameRequests = @ + 1,
                       !.calls = @ + 1]
        ELSE [c EXCEPT !.current = current,
                       !.previous = c.textContent,
                       !.textContent = c.target,
                       !.calls = @ + 1]

\* the observer's callback on `entries`, the isIntersecting of each entry in order
RECURSIVE CounterObserverCallback(_, _)
CounterObserverCallback(c, entries) ==
    IF entries = <<>> THEN c
    ELSE CounterObserverCallback(
            IF Head(entries)
            THEN [updateCounter(c) EXCEPT !.observed = FALSE, !.reported = "in",
                                          !.starts = @ + 1]
            ELSE [c EXCEPT !.reported = "out"],
            Tail(entries))

\* What one callback can deliver about an observed element: one entry per
\* change of isIntersecting since the observer's last report.
RECURSIVE Alternating(_, _)
Alternating(first, n) == IF n = 0 THEN <<>> ELSE <<first>> \o Alternating(~first, n - 1)

Entries(reported) ==
    {Alternating(first, n) : first \in {b \in BOOLEAN : reported # (IF b THEN "in" ELSE "out")},
                             n \in 1..MaxEntries}

\* a frame callback requested by requestAnimationFrame(updateCounter)
AnimationFrameCallback(s) ==
    [s EXCEPT !.counter = updateCounter([@ EXCEPT !.frameRequests = @ - 1])]

(***************************************************************************)
(* Live clock.  timeDisplay is what #current-time holds: the markup's      *)
(* content, the time-display block with its time and date strings, or the  *)
(* fallback text.  wallClock is the instant new Date() reads, in ms from   *)
(* midnight (Europe/London) of Wednesday 31 December 2025.                 *)
(***************************************************************************)
ClockInterval == 1000
TimeUnavailable == "Time unavailable"

\* Bound: the number of clock ticks explored.
MaxClockTicks == 60

\* The instants at which the clock may be mounted: 00:00:00 and 23:59:30.
ClockStarts == {0, (24 * 3600 - 30) * 1000}

DigitChars == <<"0", "1", "2", "3", "4", "5", "6", "7", "8", "9">>
TwoDigit(n) == DigitChars[(n \div 10) + 1] \o DigitChars[(n % 10) + 1]

\* now.toLocaleTimeString('en-GB', {timeZone: 'Europe/London', hour: '2-digit',
\* minute: '2-digit', second: '2-digit', hour12: false})
toLocaleTimeString(now) ==
    LET seconds == (now \div 1000) % (24 * 3600)
    IN  TwoDigit(seconds \div 3600) \o ":" \o TwoDigit((seconds \div 60) % 60) \o ":"
            \o TwoDigit(seconds % 60)

\* now.toLocaleDateString('en-GB', {weekday: 'long', year: 'numeric', month: 'long',
\* day: 'numeric'}): the four parts
toLocaleDateString(now) ==
    IF (now \div 1000) \div (24 * 3600) = 0
    THEN [weekday |-> "Wednesday", day |-> 31, month |-> "December", year |-> 2025]
    ELSE [weekday |-> "Thursday", day |-> 1 + ((now \div 1000) \div (24 * 3600) - 1),
          month |-> "January", year |-> 2026]

NoDate == [weekday |-> "", day |-> 0, month |-> "", year |-> 0]

\* the contents of #current-time
MarkupTime == [text |-> Null, time |-> "", date |-> NoDate]
FormattedTime(now) ==
    [text |-> "", time |-> toLocaleTimeString(now), date |-> toLocaleDateString(now)]
FallbackTime == [text |-> TimeUnavailable, time |-> "", date |-> NoDate]

\* updateTime() without its try/catch: a formatting error escapes and the
\* display keeps what it held
updateTimeUncaught(s, fails) ==
    IF fails
    THEN [s EXCEPT !.lastTick = [outcome |-> "failed", warned |-> FALSE, thrown |-> TRUE,
                                 count |-> @.count + 1, previous |-> @.outcome]]
    ELSE [s EXCEPT !.timeDisplay = FormattedTime(s.wallClock),
                   !.lastTick = [outcome |-> "ok", warned |-> FALSE, thrown |-> FALSE,
                                 count |-> @.count + 1, previous |-> @.outcome]]

\* updateTime(), when formatting succeeds and when it throws (`fails`):
\* lastTick records the outcome, the warning logged, any error it let escape,
\* the number of calls so far and the outcome of the call before
updateTime(s, fails) ==
    IF fails
    THEN [s EXCEPT !.timeDisplay = FallbackTime,
                   !.lastTick = [outcome |-> "failed", warned |-> TRUE, thrown |-> FALSE,
                                 count |-> @.count + 1, previous |-> @.outcome]]
    ELSE [s EXCEPT !.timeDisplay = FormattedTime(s.wallClock),
                   !.lastTick = [outcome |-> "ok", warned |-> FALSE, thrown |-> FALSE,
                                 count |-> @.count + 1, previous |-> @.outcome]]

NoTick == [outcome |-> "none", warned |-> FALSE, thrown |-> FALSE, count |-> 0, previous |-> "none"]

\* initializeTimeDisplay(): the first render and the repeating timer
initializeTimeDisplay(s, fails) ==
    [updateTime(s, fails) EXCEPT !.timers = Append(@, Timer("clockTick", ClockInterval, "", 0))]

\* a firing of the repeating timer (timer i), which stays scheduled
ClockTickCallback(s, i, fails) ==
    updateTime([s EXCEPT !.timers = Append(RemoveAt(@, i), Timer("clockTick", ClockInterval, "", 0))],
               fails)

(***************************************************************************)
(* User events.  An event target is [kind, id]: a card, feature item id,   *)
(* the theme toggle (a button), or the close button of notification id.    *)
(* lastEvent records the last event dispatched: its type, target and key,  *)
(* whether a listener called preventDefault on it, the number of click     *)
(* events dispatched on the target while it was handled, its timeStamp,    *)
(* and which of a Tab keydown and a mousedown was dispatched last (nav).   *)
(***************************************************************************)
\* Bound: the number of feature items on the page where keys are pressed.
NumInputItems == 1

Keys == {"Enter", " ", "Tab", "Escape"}
ActivationKeys == {"Enter", " "}

Card == [kind |-> "card", id |-> 0]
Toggle == [kind |-> "toggle", id |-> 0]
FeatureItem(i) == [kind |-> "feature", id |-> i]
CloseButton(n) == [kind |-> "close", id |-> n]

NoEvent ==
    [type |-> "none", target |-> Card, key |-> "", defaultPrevented |-> FALSE, clicks |-> 0,
     nav |-> "none", timeStamp |-> 0]

\* the elements document.querySelectorAll('.card, .feature-item, button') finds
\* when initializeAccessibility runs: a notification's close button, created
\* later, is not among them
HasKeydownListener(el) == el.kind \in {"card", "feature", "toggle"}

IsButton(el) == el.kind \in {"toggle", "close"}

\* the targets a user can reach in state s
Targets(s) ==
    {Card, Toggle}
        \cup {FeatureItem(i) : i \in DOMAIN s.featureItems}
        \cup {CloseButton(n) : n \in {m \in DOMAIN s.notifications : s.notifications[m].inDocument}}

\* the click listeners of el, run for one click event
DispatchClick(s, el, event) ==
    CASE el.kind = "toggle" -> ThemeToggleClick(s)
      [] el.kind = "feature" -> FeatureItemClick(s, el.id, event)
      [] el.kind = "close" -> NotificationCloseClick(s, el.id)
      [] OTHER -> s

\* a pointer's click on el
PointerClick(s, el, event) ==
    [DispatchClick(s, el, event) EXCEPT
        !.lastEvent = [type |-> "click", target |-> el, key |-> "",
                       defaultPrevented |-> FALSE, clicks |-> 1,
                       nav |-> s.lastEvent.nav, timeStamp |-> s.wallClock]]

\* the keydown listener initializeAccessibility attaches to an element
ElementKeydown(s, el, key) ==
    IF key = "Enter" \/ key = " "
    THEN [DispatchClick(s, el, SyntheticClick) EXCEPT
            !.lastEvent.defaultPrevented = TRUE,
            !.lastEvent.clicks = @ + 1]
    ELSE s

\* the document's keydown listener without its test of the key
DocumentKeydownAnyKey(s, key) == [s EXCEPT !.bodyClasses = @ \cup {"keyboard-navigation"}]

\* the keydown listener of the document
DocumentKeydown(s, key) ==
    IF key = "Tab" THEN [s EXCEPT !.bodyClasses = @ \cup {"keyboard-navigation"}] ELSE s

\* What the browser does for a keydown no listener has cancelled: Enter or
\* Space activates a button (one click event), Space elsewhere scrolls the page.
DefaultAction(s, el, key) ==
    IF s.lastEvent.defaultPrevented THEN s
    ELSE IF IsButton(el) /\ key \in ActivationKeys
         THEN [DispatchClick(s, el, SyntheticClick) EXCEPT !.lastEvent.clicks = @ + 1]
    ELSE IF key = " " THEN [s EXCEPT !.scrolled = TRUE]
    ELSE s

\* a keydown of `key` on el: the element's listener, the document's, the default
KeyDown(s, el, key) ==
    LET fresh == [s EXCEPT !.lastEvent = [type |-> "keydown", target |-> el, key |-> key,
                                          defaultPrevented |-> FALSE, clicks |-> 0,
                                          nav |-> IF key = "Tab" THEN "Tab" ELSE s.lastEvent.nav,
                                          timeStamp |-> s.wallClock]]
        atElement == IF HasKeydownListener(el) THEN ElementKeydown(fresh, el, key) ELSE fresh
    IN  DefaultAction(DocumentKeydown(atElement, key), el, key)

\* the mousedown listener of the document
MouseDown(s) ==
    [s EXCEPT !.bodyClasses = @ \ {"keyboard-navigation"},
              !.lastEvent = [type |-> "mousedown", target |-> Card, key |-> "",
                             defaultPrevented |-> FALSE, clicks |-> 0,
                             nav |-> "mousedown", timeStamp |-> s.wallClock]]

\* the visibilitychange listener removing the timers when the page is hidden
VisibilityChangePausing(s) ==
    [s EXCEPT !.bodyClasses = IF s.visibilityState = "visible"
                              THEN @ \cup {"page-visible"} ELSE @ \ {"page-visible"},
              !.timers = IF s.visibilityState = "visible" THEN @ ELSE <<>>,
              !.lastEvent = [type |-> "visibilitychange", target |-> Card,
                             key |-> s.visibilityState, defaultPrevented |-> FALSE,
                             clicks |-> 0, nav |-> s.lastEvent.nav,
                             timeStamp |-> s.wallClock]]

\* the visibilitychange listener, on the state whose visibilityState is the new one
VisibilityChange(s) ==
    [s EXCEPT !.bodyClasses = IF s.visibilityState = "visible"
                              THEN @ \cup {"page-visible"} ELSE @ \ {"page-visible"},
              !.lastEvent = [type |-> "visibilitychange", target |-> Card,
                             key |-> s.visibilityState, defaultPrevented |-> FALSE,
                             clicks |-> 0, nav |-> s.lastEvent.nav,
                             timeStamp |-> s.wallClock]]

\* the states the exploration keeps to
WithinBounds(s) ==
    /\ s.toggleClicks <= MaxToggleClicks
    /\ s.featureClicks <= MaxFeatureClicks
    /\ s.closeClicks <= MaxCloseClicks

(***************************************************************************)
(* Page load.  The DOMContentLoaded handler runs five initialization       *)
(* steps, then registers the visibilitychange and error listeners, injects *)
(* its styles and schedules the welcome notification.  `load` holds the    *)
(* page's markup (which of the elements the script looks for exist), the   *)
(* environment (which of the APIs the script calls are available), the     *)
(* next step (pc), the steps completed, the listeners registered, the      *)
(* errors that escaped the handler and the errors its error listener       *)
(* logged.  A step that throws ends the handler: pc becomes "aborted".     *)
(***************************************************************************)
FadeInStagger == 200

mainElements == <<".hero-title", ".hero-subtitle", ".welcome-message", ".features">>

LoadSteps == <<"animations", "time", "theme", "accessibility", "interactive", "listeners">>

Environments ==
    [intersectionObserver : BOOLEAN, localStorage : BOOLEAN, matchMedia : BOOLEAN,
     reducedMotion : BOOLEAN, formatFails : BOOLEAN]

Supported ==
    [intersectionObserver |-> TRUE, localStorage |-> TRUE, matchMedia |-> TRUE,
     reducedMotion |-> FALSE, formatFails |-> FALSE]

\* the report of an exception no handler caught: it ends the running handler
\* and the window's error event runs the script's error listener if registered
Throw(s) ==
    [s EXCEPT !.load.pc = "aborted",
              !.load.uncaught = @ + 1,
              !.load.logged = IF "error" \in s.load.listeners THEN @ + 1 ELSE @]

Completed(s, step, next) == [s EXCEPT !.load.completed = @ \cup {step}, !.load.pc = next]

\* the setTimeout calls with the delay counted over the elements found:
\* the k-th element present gets k * 200
RECURSIVE FadeInTimersCompacted(_, _)
FadeInTimersCompacted(present, i) ==
    IF i >= Len(mainElements) THEN <<>>
    ELSE (IF i \in present
          THEN <<Timer("fadeIn", Cardinality({j \in present : j < i}) * FadeInStagger, "", i)>>
          ELSE <<>>)
            \o FadeInTimersCompacted(present, i + 1)

\* the staggered fade-in timers of the hero elements present, positions i..3
RECURSIVE FadeInTimers(_, _)
FadeInTimers(present, i) ==
    IF i >= Len(mainElements) THEN <<>>
    ELSE (IF i \in present THEN <<Timer("fadeIn", i * FadeInStagger, "", i)>> ELSE <<>>)
            \o FadeInTimers(present, i + 1)

\* Bound: the number of .animate-in elements on the page.
NumAnimateIn == 2

\* an .animate-in element of the markup; marks is history, the number of
\* times the observer's callback added 'animated' to it
NewAnimateIn == [animated |-> FALSE, observed |-> FALSE, reported |-> "none", marks |-> 0]

\* the scroll observer's callback on `entries`, each [target, isIntersecting]
RECURSIVE AnimateObserverCallback(_, _)
AnimateObserverCallback(elements, entries) ==
    IF entries = <<>> THEN elements
    ELSE LET entry == Head(entries)
         IN  AnimateObserverCallback(
                IF entry.isIntersecting
                THEN [elements EXCEPT ![entry.target] =
                        [@ EXCEPT !.animated = TRUE, !.marks = @ + 1,
                                  !.observed = FALSE, !.reported = "in"]]
                ELSE [elements EXCEPT ![entry.target].reported = "out"],
                Tail(entries))

\* What one callback of the scroll observer can deliver: up to n entries, for
\* the targets of `reported` in any order, one entry per change of a target's
\* isIntersecting since what was last reported of it.
RECURSIVE EntryLists(_, _)
EntryLists(reported, n) ==
    IF n = 0 THEN {<<>>}
    ELSE {<<>>} \cup UNION {UNION {
            {<<[target |-> t, isIntersecting |-> b]>> \o rest :
                rest \in EntryLists([reported EXCEPT ![t] = IF b THEN "in" ELSE "out"], n - 1)} :
            b \in {c \in BOOLEAN : reported[t] # (IF c THEN "in" ELSE "out")}} :
            t \in DOMAIN reported}

\* the entries a callback can deliver for the elements still observed
AnimateEntries(elements) ==
    LET targets == {e \in DOMAIN elements : elements[e].observed}
    IN  EntryLists([t \in targets |-> elements[t].reported], MaxEntries) \ {<<>>}

\* initializeAnimations(): new IntersectionObserver throws where it is
\* undefined; every .animate-in element is observed, the fade-ins scheduled
initializeAnimations(s) ==
    IF ~s.load.env.intersectionObserver THEN Throw(s)
    ELSE Completed([s EXCEPT !.animateIn = [e \in DOMAIN @ |-> [@[e] EXCEPT !.observed = TRUE]],
                             !.timers = @ \o FadeInTimers(s.load.markup.heroes, 0)],
                   "animations", "time")

\* the 0/200/400/600ms callback (timer i): mark the hero element
FadeInCallback(s, i) ==
    [s EXCEPT !.heroFadeIn = @ \cup {s.timers[i].id},
              !.timers = RemoveAt(@, i)]

\* initializeTimeDisplay() as a step of the handler
InitializeTimeDisplayStep(s) ==
    Completed(IF s.load.markup.clock THEN initializeTimeDisplay(s, s.load.env.formatFails) ELSE s,
              "time", "theme")

\* initializeThemeToggle() as a step: localStorage.getItem throws where storage is denied
InitializeThemeToggleStep(s) ==
    IF ~s.load.markup.toggle THEN Completed(s, "theme", "accessibility")
    ELSE IF ~s.load.env.localStorage THEN Throw(s)
    ELSE Completed([initializeThemeToggle(s) EXCEPT !.load.listeners = @ \cup {"toggle click"}],
                   "theme", "accessibility")

\* initializeAccessibility(): the key and mouse listeners, then
\* window.matchMedia, which throws where it is undefined
initializeAccessibility(s) ==
    LET listening == [s EXCEPT !.load.listeners = @ \cup {"keydown", "mousedown"}]
    IN  IF ~s.load.env.matchMedia THEN Throw(listening)
        ELSE Completed(
                IF s.load.env.reducedMotion
                THEN [listening EXCEPT !.rootStyle = [animationDuration |-> "0.01ms",
                                                      transitionDuration |-> "0.01ms"]]
                ELSE listening,
                "accessibility", "interactive")

\* initializeInteractiveElements(): the hover and click listeners, then
\* initializeCounters(), whose new IntersectionObserver throws where undefined
initializeInteractiveElements(s) ==
    LET listening == [s EXCEPT !.load.listeners = @ \cup {"feature click"}]
    IN  IF s.load.markup.dataCount = <<>> THEN Completed(listening, "interactive", "listeners")
        ELSE IF ~s.load.env.intersectionObserver THEN Throw(listening)
        ELSE Completed([listening EXCEPT !.counter = initializeCounters(s.load.markup.dataCount)],
                       "interactive", "listeners")

\* lines 353-413: the visibilitychange and error listeners, the styles, the welcome timer
RegisterListeners(s) ==
    Completed([s EXCEPT !.load.listeners = @ \cup {"visibilitychange", "error"},
                        !.timers = Append(@, Timer("welcome", WelcomeDelay, "", 0))],
              "listeners", "done")

\* the step of the handler the pc names
LoadStep(s) ==
    CASE s.load.pc = "animations" -> initializeAnimations(s)
      [] s.load.pc = "time" -> InitializeTimeDisplayStep(s)
      [] s.load.pc = "theme" -> InitializeThemeToggleStep(s)
      [] s.load.pc = "accessibility" -> initializeAccessibility(s)
      [] s.load.pc = "interactive" -> initializeInteractiveElements(s)
      [] s.load.pc = "listeners" -> RegisterListeners(s)
      [] OTHER -> s

\* the whole handler, from the state before it
RECURSIVE LoadHandler(_)
LoadHandler(s) == IF s.load.pc \in {"done", "aborted"} THEN s ELSE LoadHandler(LoadStep(s))

\* The page before the handler runs: markup is [toggle, clock, heroes, items,
\* dataCount, animateIn], stored the "theme" entry of localStorage, start the instant.
BeforeLoad(markup, env, stored, start) ==
    [dataTheme |-> Null, storedTheme |-> stored, themeToggle |-> [innerHTML |-> Null, ariaLabel |-> Null, title |-> Null],
     bodyClasses |-> {}, scrolled |-> FALSE, timers |-> <<>>, notifications |-> <<>>,
     featureItems |-> [i \in 0..(markup.items - 1) |->
                          [active |-> FALSE, ripples |-> <<>>, relative |-> FALSE]],
     counter |-> NoCounter, timeDisplay |-> MarkupTime, wallClock |-> start,
     load |-> [markup |-> markup, env |-> env, pc |-> "animations", completed |-> {},
               listeners |-> {}, uncaught |-> 0, logged |-> 0],
     lastEvent |-> NoEvent, lastTick |-> NoTick, toggleClicks |-> 0, featureClicks |-> 0,
     closeClicks |-> 0, commitAge |-> -1, startTheme |-> Null, visibilityState |-> "visible",
     heroFadeIn |-> {}, animateIn |-> [e \in 1..markup.animateIn |-> NewAnimateIn],
     rootStyle |-> [animationDuration |-> "", transitionDuration |-> ""]]

\* a markup with the toggle and nothing else; the others add to it
BareMarkup ==
    [toggle |-> TRUE, clock |-> FALSE, heroes |-> {}, items |-> 0, dataCount |-> <<>>,
     animateIn |-> 0]

\* the page the handler leaves when nothing throws
Loaded(markup, env, stored, start) == LoadHandler(BeforeLoad(markup, env, stored, start))

\* That page (one without a clock) 6300ms after load with no user event
\* before and no observer callback yet: its fade-ins are done and its welcome
\* notification has come and gone, no timer is left, and the notification's
\* record is the one its removal leaves.
Settled(markup, stored) ==
    [Loaded(markup, Supported, stored, 0) EXCEPT
        !.timers = <<>>,
        !.heroFadeIn = markup.heroes,
        !.notifications = <<[NewNotification(WelcomeMessage, "success") EXCEPT
                                !.inDocument = FALSE,
                                !.age = NotificationLife,
                                !.offFor = NotificationSlideOutDelay,
                                !.slideOut = NotificationSlideOutDelay]>>]

(***************************************************************************)
(* Time                                                                    *)
(***************************************************************************)
Age(a, q, cap) == IF a < 0 THEN a ELSE Min(a + q, cap)

ClockMounted(s) == \E i \in DOMAIN s.timers : s.timers[i].kind = "clockTick"

\* q ms pass: the timers, the clock and the ages kept as history
Pass(s, q) ==
    [s EXCEPT
        !.timers = [i \in DOMAIN s.timers |-> [s.timers[i] EXCEPT !.rem = Max(@ - q, 0)]],
        !.wallClock = IF ClockMounted(s) THEN @ + q ELSE @,
        !.commitAge = Age(@, q, ThemeTransitionDelay),
        !.notifications = [n \in DOMAIN s.notifications |->
            [s.notifications[n] EXCEPT
                !.age = Age(@, q, NotificationLife + 1),
                !.closeAge = Age(@, q, NotificationSlideOutDelay + 1),
                !.offFor = IF s.notifications[n].transform = OffScreen
                           THEN Min(@ + q, NotificationSlideOutDelay) ELSE 0]]]

\* q ms can pass only while no timer is due before they end: a due callback
\* runs at once, the event loop being idle between the steps of the model
CanPass(q) ==
    /\ Idle
    /\ \A i \in DOMAIN timers : timers[i].rem >= q

RECURSIVE LongestWait(_, _)
LongestWait(ts, i) == IF i = 0 THEN 0 ELSE Max(ts[i].rem, LongestWait(ts, i - 1))

\* Durations abstracted: enough time passes for every pending timer to be
\* due, so that any of them may run next, in the order setTimeout guarantees.
Elapse ==
    /\ Idle
    /\ LongestWait(timers, Len(timers)) > 0
    /\ Becomes(Pass(State, LongestWait(timers, Len(timers))))

(***************************************************************************)
(* Actions: one per timer callback and per user event                      *)
(***************************************************************************)
ThemeCommit ==
    \E i \in DOMAIN timers :
        /\ Due(i) /\ timers[i].kind = "themeCommit"
        /\ Becomes(ThemeCommitCallback(State, i))

ThemeTransitionEnd ==
    \E i \in DOMAIN timers :
        /\ Due(i) /\ timers[i].kind = "themeTransitionEnd"
        /\ Becomes(ThemeTransitionEndCallback(State, i))

Welcome ==
    \E i \in DOMAIN timers :
        /\ Due(i) /\ timers[i].kind = "welcome"
        /\ Becomes(WelcomeCallback(State, i))

NotificationSlideIn ==
    \E i \in DOMAIN timers :
        /\ Due(i) /\ timers[i].kind = "notificationSlideIn"
        /\ Becomes(NotificationSlideInCallback(State, i))

NotificationAutoDismiss ==
    \E i \in DOMAIN timers :
        /\ Due(i) /\ timers[i].kind = "notificationAutoDismiss"
        /\ Becomes(NotificationAutoDismissCallback(State, i))

NotificationRemove ==
    \E i \in DOMAIN timers :
        /\ Due(i) /\ timers[i].kind = "notificationRemove"
        /\ Becomes(NotificationRemoveCallback(State, i))

RippleRemove ==
    \E i \in DOMAIN timers :
        /\ Due(i) /\ timers[i].kind = "rippleRemove"
        /\ Becomes(RippleRemoveCallback(State, i))

FadeIn ==
    \E i \in DOMAIN timers :
        /\ Due(i) /\ timers[i].kind = "fadeIn"
        /\ Becomes(FadeInCallback(State, i))

ClockTick ==
    \E i \in DOMAIN timers, fails \in BOOLEAN :
        /\ Due(i) /\ timers[i].kind = "clockTick"
        /\ lastTick.count < MaxClockTicks
        /\ Becomes(ClockTickCallback(State, i, fails))

ClickThemeToggle ==
    /\ Idle
    /\ toggleClicks < MaxToggleClicks
    /\ Becomes(PointerClick(State, Toggle, SyntheticClick))

ClickFeatureItem ==
    \E i \in DOMAIN featureItems : \E event \in PointerClicks(i) :
        /\ Idle
        /\ featureClicks < MaxFeatureClicks
        /\ Becomes(PointerClick(State, FeatureItem(i), event))

ClickNotificationClose ==
    \E n \in DOMAIN notifications :
        /\ Idle
        /\ closeClicks < MaxCloseClicks
        /\ notifications[n].inDocument
        /\ Becomes(PointerClick(State, CloseButton(n), SyntheticClick))

PressKey ==
    \E el \in Targets(State), key \in Keys :
        /\ Idle
        /\ WithinBounds(KeyDown(State, el, key))
        /\ Becomes(KeyDown(State, el, key))

PressMouse ==
    /\ Idle
    /\ Becomes(MouseDown(State))

\* the page is hidden or shown again: the browser changes visibilityState
\* and dispatches visibilitychange
ChangeVisibility ==
    /\ Idle
    /\ "visibilitychange" \in load.listeners
    /\ Becomes(VisibilityChange([State EXCEPT !.visibilityState =
                                    IF @ = "visible" THEN "hidden" ELSE "visible"]))

ObserveCounter ==
    \E entries \in Entries(counter.reported) :
        /\ Idle
        /\ counter.observed
        /\ Becomes([State EXCEPT !.counter = CounterObserverCallback(@, entries)])

ObserveAnimateIn ==
    \E entries \in AnimateEntries(animateIn) :
        /\ Idle
        /\ Becomes([State EXCEPT !.animateIn = AnimateObserverCallback(@, entries)])

AnimationFrame ==
    /\ Idle
    /\ counter.frameRequests > 0
    /\ Becomes(AnimationFrameCallback(State))

Load ==
    /\ ~Idle
    /\ Becomes(LoadStep(State))

(***************************************************************************)
(* SpecTheme: the theme toggle on the settled page, in steps of 50ms       *)
(***************************************************************************)
InitTheme == \E stored \in StoredValues : Is(Settled(BareMarkup, stored))

TickTheme ==
    /\ CanPass(ThemeCommitDelay)
    /\ Becomes(Pass(State, ThemeCommitDelay))

NextTheme ==
    \/ ClickThemeToggle
    \/ ThemeCommit
    \/ ThemeTransitionEnd
    \/ TickTheme

SpecTheme == InitTheme /\ [][NextTheme]_vars

(***************************************************************************)
(* SpecNotification: the welcome notification from page load, its timers   *)
(* and its close button, in steps of 100ms                                 *)
(***************************************************************************)
InitNotification == Is(Loaded(BareMarkup, Supported, Null, 0))

TickNotification ==
    /\ CanPass(NotificationSlideInDelay)
    /\ Becomes(Pass(State, NotificationSlideInDelay))

NextNotification ==
    \/ Welcome
    \/ NotificationSlideIn
    \/ ClickNotificationClose
    \/ NotificationAutoDismiss
    \/ NotificationRemove
    \/ TickNotification

SpecNotification == InitNotification /\ [][NextNotification]_vars

(***************************************************************************)
(* SpecCounter: a counter on the settled page, from the observation of its *)
(* element to the last frame callback                                      *)
(***************************************************************************)
InitCounter ==
    \E n \in 1..MaxTarget : Is(Settled([BareMarkup EXCEPT !.dataCount = Digits(n)], Null))

NextCounter == ObserveCounter \/ AnimationFrame

SpecCounter == InitCounter /\ [][NextCounter]_vars


(***************************************************************************)
(* SpecObserver: the .animate-in elements and a counter on the settled     *)
(* page, under any sequence of observer callbacks and frame callbacks      *)
(***************************************************************************)
InitObserver ==
    \E n \in {3, 50} :
        Is(Settled([BareMarkup EXCEPT !.dataCount = Digits(n), !.animateIn = NumAnimateIn],
                   Null))

NextObserver == ObserveAnimateIn \/ ObserveCounter \/ AnimationFrame

SpecObserver == InitObserver /\ [][NextObserver]_vars

(***************************************************************************)
(* SpecStack: the notification of a feature item clicked within the first  *)
(* second after load and the welcome notification that follows it, their   *)
(* timers and their close buttons, in steps of 100ms                       *)
(***************************************************************************)
StackPage == Loaded([BareMarkup EXCEPT !.items = NumInputItems], Supported, Null, 0)

\* a feature item is clicked at any multiple of 100ms up to the moment the
\* welcome timer is due: no callback runs before it
InitStack ==
    \E t \in 0..(WelcomeDelay \div NotificationSlideInDelay), i \in 0..(NumInputItems - 1) :
        Is(PointerClick(Pass(StackPage, t * NotificationSlideInDelay), FeatureItem(i),
                        SyntheticClick))

\* Bound: the number of close-button activations explored on the two.
MaxStackCloses == 2

StackClose == closeClicks < MaxStackCloses /\ ClickNotificationClose

TickStack ==
    /\ CanPass(NotificationSlideInDelay)
    /\ Becomes(Pass(State, NotificationSlideInDelay))

NextStack ==
    \/ Welcome
    \/ NotificationSlideIn
    \/ StackClose
    \/ NotificationAutoDismiss
    \/ NotificationRemove
    \/ RippleRemove
    \/ TickStack

SpecStack == InitStack /\ [][NextStack]_vars

(***************************************************************************)
(* SpecFeature: clicks on the feature items of the settled page, with the  *)
(* ripples and the notifications they create; durations abstracted         *)
(***************************************************************************)
InitFeature == Is(Settled([BareMarkup EXCEPT !.items = NumFeatureItems], Null))

NextFeature ==
    \/ ClickFeatureItem
    \/ RippleRemove
    \/ NotificationSlideIn
    \/ NotificationAutoDismiss
    \/ NotificationRemove
    \/ Elapse

SpecFeature == InitFeature /\ [][NextFeature]_vars

(***************************************************************************)
(* SpecClock: the live clock from page load, with formatting that may fail *)
(* at any tick, in steps of 100ms                                          *)
(***************************************************************************)
InitClock ==
    \E start \in ClockStarts, fails \in BOOLEAN :
        Is(Loaded([BareMarkup EXCEPT !.clock = TRUE],
                  [Supported EXCEPT !.formatFails = fails], Null, start))

TickClock ==
    /\ CanPass(NotificationSlideInDelay)
    /\ Becomes(Pass(State, NotificationSlideInDelay))

NextClock ==
    \/ ClockTick
    \/ Welcome
    \/ NotificationSlideIn
    \/ NotificationAutoDismiss
    \/ NotificationRemove
    \/ TickClock

SpecClock == InitClock /\ [][NextClock]_vars

(***************************************************************************)
(* SpecLoad: the load handler step by step, on every markup of LoadMarkups *)
(* in every environment, and the timers it leaves; durations abstracted    *)
(***************************************************************************)
LoadMarkups ==
    {[toggle |-> toggle, clock |-> clock, heroes |-> heroes, items |-> 0,
      dataCount |-> dataCount, animateIn |-> 1] :
        toggle \in BOOLEAN, clock \in BOOLEAN, heroes \in {{}, {0, 3}},
        dataCount \in {<<>>, Digits(50)}}

InitLoad ==
    \E markup \in LoadMarkups, env \in Environments, stored \in {Null, "dark"} :
        Is(BeforeLoad(markup, env, stored, 0))

\* Bound: the number of clock ticks explored after a load.
MaxLoadTicks == 8

NextLoad ==
    \/ Load
    \/ FadeIn
    \/ (lastTick.count <= MaxLoadTicks /\ ClockTick)
    \/ Welcome
    \/ NotificationSlideIn
    \/ NotificationAutoDismiss
    \/ NotificationRemove
    \/ Elapse

SpecLoad == InitLoad /\ [][NextLoad]_vars

(***************************************************************************)
(* SpecInput: keys, mouse presses and pointer clicks on the interactive    *)
(* elements of the settled page; durations abstracted                      *)
(***************************************************************************)
InitInput == Is(Settled([BareMarkup EXCEPT !.items = NumInputItems], Null))

\* Bound: the number of activations, by key or by pointer, explored together.
MaxActivations == 2

Activations == toggleClicks + featureClicks + closeClicks

KeyInput == Activations < MaxActivations /\ PressKey
MouseInput == Activations < MaxActivations /\ PressMouse
ToggleInput == Activations < MaxActivations /\ ClickThemeToggle
FeatureInput == Activations < MaxActivations /\ ClickFeatureItem
CloseInput == Activations < MaxActivations /\ ClickNotificationClose

NextInput ==
    \/ KeyInput
    \/ MouseInput
    \/ ToggleInput
    \/ FeatureInput
    \/ CloseInput
    \/ ThemeCommit
    \/ ThemeTransitionEnd
    \/ RippleRemove
    \/ NotificationSlideIn
    \/ NotificationAutoDismiss
    \/ NotificationRemove
    \/ Elapse

SpecInput == InitInput /\ [][NextInput]_vars

(***************************************************************************)
(* SpecFade: the load of a page with a clock and any subset of the four    *)
(* hero elements, in 100ms steps; the clock counts the ms since the load   *)
(***************************************************************************)
InitFade ==
    \E heroes \in SUBSET (0..(Len(mainElements) - 1)) :
        Is(Loaded([BareMarkup EXCEPT !.clock = TRUE, !.heroes = heroes], Supported, Null, 0))

TickFade ==
    /\ CanPass(NotificationSlideInDelay)
    /\ Becomes(Pass(State, NotificationSlideInDelay))

NextFade ==
    \/ FadeIn
    \/ (lastTick.count <= MaxLoadTicks /\ ClockTick)
    \/ Welcome
    \/ NotificationSlideIn
    \/ NotificationAutoDismiss
    \/ NotificationRemove
    \/ TickFade

SpecFade == InitFade /\ [][NextFade]_vars

(***************************************************************************)
(* SpecVisibility: the loaded page with a clock, two hero elements and a   *)
(* feature item, clicked or not as soon as the page was loaded; the page   *)
(* is shown or hidden at any moment, with durations abstracted             *)
(***************************************************************************)
VisibilityPage(stored) ==
    Loaded([BareMarkup EXCEPT !.clock = TRUE, !.heroes = {0, 3}, !.items = NumInputItems],
           Supported, stored, 0)

InitVisibility ==
    \E stored \in {Null, "dark"} :
        \/ Is(VisibilityPage(stored))
        \/ \E i \in 0..(NumInputItems - 1) :
              Is(PointerClick(VisibilityPage(stored), FeatureItem(i), SyntheticClick))

\* Bound: the number of clock ticks explored with visibility changes.
MaxVisibilityTicks == 2

NextVisibility ==
    \/ ChangeVisibility
    \/ RippleRemove
    \/ FadeIn
    \/ (lastTick.count <= MaxVisibilityTicks /\ ClockTick)
    \/ Welcome
    \/ NotificationSlideIn
    \/ NotificationAutoDismiss
    \/ NotificationRemove
    \/ Elapse

SpecVisibility == InitVisibility /\ [][NextVisibility]_vars

(***************************************************************************)
(* Claims about the theme toggle (SpecTheme)                               *)
(***************************************************************************)
HasTransitionMarker == "theme-transition" \in bodyClasses

\* C1: starting with theme light, once two activations of the toggle and all
\* their timers are done, data-theme is light and the label is
\* "Switch to dark mode" again, whatever the timing of the second activation.
C1_DoubleToggleRestores ==
    (startTheme = "light" /\ toggleClicks = 2 /\ timers = <<>>)
        => (dataTheme = "light" /\ themeToggle.ariaLabel = "Switch to dark mode")

\* C2: the transition marker is on the body at every theme commit and stays
\* for at least 300ms after it: less than 300ms after the last commit, the
\* marker is present.
C2_MarkerCoversCommit ==
    (commitAge >= 0 /\ commitAge < ThemeTransitionDelay) => HasTransitionMarker

\* C3: in every state after initialization data-theme equals the stored value
\* (an absent key read as light) and the label names the opposite theme:
\* "Switch to light mode" exactly when data-theme is dark, "Switch to dark
\* mode" exactly when it is light.
C3_ThemeRepresentationsAgree ==
    /\ dataTheme = (IF storedTheme = Null THEN "light" ELSE storedTheme)
    /\ (themeToggle.ariaLabel = "Switch to light mode") <=> (dataTheme = "dark")
    /\ (themeToggle.ariaLabel = "Switch to dark mode") <=> (dataTheme = "light")

(***************************************************************************)
(* Claims about notifications (SpecNotification)                           *)
(***************************************************************************)
\* A notification still in the document is at most 5300ms old and at most
\* 300ms past the first activation of its close button.
NotificationsTimely ==
    \A n \in DOMAIN notifications :
        notifications[n].inDocument =>
            /\ notifications[n].age <= NotificationLife
            /\ notifications[n].closeAge <= NotificationSlideOutDelay

\* No step puts a removed notification back into the document.
NeverReinserted ==
    \A n \in DOMAIN notifications :
        ~notifications[n].inDocument => ~notifications'[n].inDocument

\* C4: every notification is gone by 5300ms after its creation and within
\* 300ms of an activation of its close button, under every interleaving of
\* close activations and its timers, and once removed it stays removed.
C4_NotificationRemoved == []NotificationsTimely /\ [][NeverReinserted]_vars

\* C4 witness: a notification closed 100ms before its auto-dismiss, whose
\* auto-dismiss then ran, and which was removed 300ms after the activation.
C4_Witness ==
    \E n \in DOMAIN notifications :
        /\ ~notifications[n].inDocument
        /\ notifications[n].closeAge = NotificationSlideOutDelay
        /\ notifications[n].age = NotificationAutoDismissDelay + 200
        /\ \A i \in DOMAIN timers : timers[i].kind # "notificationAutoDismiss"

\* C5: at the moment a notification is removed its transform has been the
\* off-screen value for the preceding 300ms, whenever the close button was
\* activated.
C5_SlideOutBeforeRemoval ==
    \A n \in DOMAIN notifications :
        ~notifications[n].inDocument => notifications[n].slideOut >= NotificationSlideOutDelay

(***************************************************************************)
(* Claims about the counter (SpecCounter)                                  *)
(***************************************************************************)
\* the counter has written its display and no frame callback is pending
CounterFinished == counter.calls > 0 /\ counter.frameRequests = 0

\* C6: a counter with a positive integer target never displays more than
\* its target, displays integers that never decrease from one frame to the
\* next, and its last display is exactly the target.
C6_CounterReachesTarget ==
    /\ counter.target \in 1..MaxTarget
    /\ counter.calls > 0 =>
          /\ counter.textContent \in 0..counter.target
          /\ counter.textContent >= counter.previous
    /\ CounterFinished => counter.textContent = counter.target

\* C6 witness: data-count="50" displays 49 at its 125th call and 50, its
\* last value, at its 126th.
C6_Witness ==
    /\ counter.dataCount = <<5, 0>>
    /\ CounterFinished
    /\ counter.calls = CounterDuration \div FrameStep + 1
    /\ counter.previous = 49
    /\ counter.textContent = 50

(***************************************************************************)
(* Claims about feature items (SpecFeature)                                *)
(***************************************************************************)
ActiveItems == {i \in DOMAIN featureItems : featureItems[i].active}

AtMostOneActive == Cardinality(ActiveItems) <= 1

\* A step that is a click on feature item i adds one notification with the
\* text of descriptor i, if i has one, and leaves i the only active item.
FeatureClickEffect ==
    \A i \in DOMAIN featureItems :
        (featureClicks' = featureClicks + 1 /\ lastEvent'.target = FeatureItem(i)) =>
            /\ i \in 0..3 =>
                  /\ Len(notifications') = Len(notifications) + 1
                  /\ notifications'[Len(notifications')].message =
                        features[i + 1].title \o ": " \o features[i + 1].description
            /\ \A j \in DOMAIN featureItems : featureItems'[j].active <=> (j = i)

\* C7: a click on feature item i (0..3) creates exactly one notification,
\* whose text is "<title_i>: <description_i>", and leaves item i the only
\* active item; at most one feature item is active in every state.
C7_FeatureClick == [][FeatureClickEffect]_vars /\ []AtMostOneActive

\* C7 witness: item 0 was clicked, then item 3: two notifications with their
\* descriptors' texts after the welcome, and item 3 the only active item.
C7_Witness ==
    /\ featureClicks = 2
    /\ Len(notifications) = 3
    /\ notifications[2].message = "Modern Design: Clean and contemporary UK-focused design"
    /\ notifications[3].message = "Accessible: Built with accessibility in mind"
    /\ ActiveItems = {3}

(***************************************************************************)
(* Claims about the clock (SpecClock)                                      *)
(***************************************************************************)
\* the instant of the last call of updateTime: the repeating timer was
\* scheduled then, ClockInterval ms before it is due
LastTickInstant(i) == wallClock - (ClockInterval - timers[i].rem)

\* C8: a tick whose formatting fails leaves the fallback text and throws
\* nothing; a tick whose formatting succeeds, after a failure too, leaves the
\* formatted time and date of its instant; and the repeating timer is
\* pending after every tick, due within 1000ms.
C8_ClockSurvivesFailure ==
    /\ lastTick.outcome = "failed" =>
          /\ timeDisplay = FallbackTime
          /\ timeDisplay.text = "Time unavailable"
          /\ ~lastTick.thrown
    /\ \E i \in DOMAIN timers :
          /\ timers[i].kind = "clockTick"
          /\ timers[i].rem <= ClockInterval
          /\ lastTick.outcome = "ok" =>
                /\ timeDisplay.text = ""
                /\ timeDisplay.time = toLocaleTimeString(LastTickInstant(i))
                /\ timeDisplay.date = toLocaleDateString(LastTickInstant(i))

\* C8 witness: the clock mounted at 00:00:00 failed at its second call and
\* shows 00:00:02 after its third.
C8_Witness ==
    /\ lastTick.count = 3
    /\ lastTick.previous = "failed"
    /\ lastTick.outcome = "ok"
    /\ timeDisplay.time = "00:00:02"
    /\ timeDisplay.date.weekday = "Wednesday"

(***************************************************************************)
(* Claims about page load (SpecLoad)                                       *)
(***************************************************************************)
\* C9: when an initialization step has raised an uncaught error, the error
\* listener has logged it, and every other step, the visibility listener and
\* the welcome notification's timer are set up all the same.
C9_ErrorDoesNotHalt ==
    (Idle /\ load.uncaught > 0) =>
        /\ load.logged = load.uncaught
        /\ Cardinality(load.completed) >= Len(LoadSteps) - 1
        /\ "visibilitychange" \in load.listeners
        /\ "listeners" \in load.completed

(***************************************************************************)
(* Claims about key activation (SpecInput)                                 *)
(***************************************************************************)
\* what an event did to the page: the state without the record of the event
Effect(s) == [s EXCEPT !.lastEvent = NoEvent]

\* the clicks a pointer can make on an element
PointerClicksOn(el) == IF el.kind = "feature" THEN PointerClicks(el.id) ELSE {SyntheticClick}

\* C10: on every interactive element, a keydown of Enter or Space does to
\* the page exactly what one pointer click on the element does, by one click
\* event, with the key's default action prevented; a keydown of any other
\* key changes nothing.
C10_KeyActivationIsClick ==
    \A el \in Targets(State), key \in Keys :
        IF key \in ActivationKeys
        THEN /\ \E event \in PointerClicksOn(el) :
                    Effect(KeyDown(State, el, key)) = Effect(PointerClick(State, el, event))
             /\ KeyDown(State, el, key).lastEvent.clicks = 1
             /\ KeyDown(State, el, key).lastEvent.defaultPrevented
        ELSE Effect(KeyDown(State, el, key)) = Effect(State)

(***************************************************************************)
(* Claims about the one-shot observers (SpecObserver)                      *)
(***************************************************************************)
\* C11: over any sequence of reports of an element entering and leaving the
\* viewport, 'animated' is added to an .animate-in element at most once and
\* a counter is started at most once; the element is unobserved by the
\* callback that triggers it, and a counter started never starts again.
C11_OneShotTriggers ==
    /\ \A e \in DOMAIN animateIn :
          /\ animateIn[e].marks <= 1
          /\ animateIn[e].animated <=> animateIn[e].marks > 0
          /\ animateIn[e].animated => ~animateIn[e].observed
    /\ counter.starts <= 1
    /\ counter.calls > 0 => ~counter.observed

(***************************************************************************)
(* Claims about several notifications at once (SpecStack)                  *)
(***************************************************************************)
NotificationKinds == {"notificationSlideIn", "notificationAutoDismiss", "notificationRemove"}

\* the pending timers of notification k, in order
RECURSIVE TimersOf(_, _)
TimersOf(ts, k) ==
    IF ts = <<>> THEN <<>>
    ELSE (IF Head(ts).kind \in NotificationKinds /\ Head(ts).id = k THEN <<Head(ts)>> ELSE <<>>)
            \o TimersOf(Tail(ts), k)

\* state t differs from the present one in no notification but n and in no
\* timer of another notification
OnlyChanges(t, n) ==
    /\ DOMAIN t.notifications = DOMAIN notifications
    /\ \A k \in DOMAIN notifications \ {n} :
          /\ t.notifications[k] = notifications[k]
          /\ TimersOf(t.timers, k) = TimersOf(timers, k)

\* the callback of timer i, a timer of a notification
NotificationCallback(i) ==
    CASE timers[i].kind = "notificationSlideIn" -> NotificationSlideInCallback(State, i)
      [] timers[i].kind = "notificationAutoDismiss" -> NotificationAutoDismissCallback(State, i)
      [] timers[i].kind = "notificationRemove" -> NotificationRemoveCallback(State, i)

\* C12: with several notifications present, a close activation or a timer
\* of notification n changes n alone, neither another notification nor its
\* timers; and every notification is in the document exactly until 5300ms
\* after its creation or 300ms after the first activation of its own close
\* button, whichever comes first.
C12_NotificationsIndependent ==
    /\ \A n \in DOMAIN notifications :
          notifications[n].inDocument => OnlyChanges(NotificationCloseClick(State, n), n)
    /\ \A i \in DOMAIN timers :
          timers[i].kind \in NotificationKinds => OnlyChanges(NotificationCallback(i), timers[i].id)
    /\ \A n \in DOMAIN notifications :
          IF notifications[n].inDocument
          THEN /\ notifications[n].age <= NotificationLife
               /\ notifications[n].closeAge <= NotificationSlideOutDelay
          ELSE \/ notifications[n].age >= NotificationLife
               \/ notifications[n].closeAge >= NotificationSlideOutDelay

\* C12 witness: of two notifications the first was closed and removed 300ms
\* later, while the second, never closed, is on screen in the document.
C12_Witness ==
    /\ Len(notifications) = 2
    /\ ~notifications[1].inDocument
    /\ notifications[1].closeAge = NotificationSlideOutDelay
    /\ notifications[1].age < NotificationAutoDismissDelay
    /\ notifications[2].inDocument
    /\ notifications[2].transform = OnScreen
    /\ notifications[2].closeAge = -1

(***************************************************************************)
(* Claims about the keyboard-navigation marker (SpecInput)                 *)
(***************************************************************************)
\* C13: the body carries 'keyboard-navigation' exactly when, of the Tab
\* keydowns and mousedowns so far, the last was a Tab keydown; it carries
\* none before any of them, and no other key or event changes it.
C13_KeyboardNavigationMarker ==
    ("keyboard-navigation" \in bodyClasses) <=> (lastEvent.nav = "Tab")

\* C13 witness: after a Tab keydown and then a keydown of Enter that
\* activated the theme toggle, the marker is still on the body.
C13_Witness ==
    /\ lastEvent.nav = "Tab"
    /\ lastEvent.type = "keydown"
    /\ lastEvent.key = "Enter"
    /\ lastEvent.target = Toggle
    /\ toggleClicks = 1
    /\ "keyboard-navigation" \in bodyClasses

(***************************************************************************)
(* Claims about the counter's termination (SpecCounter)                    *)
(***************************************************************************)
\* the frame steps of the animation: duration / 16
FrameSteps == CounterDuration \div FrameStep

\* C14 as stated: a started counter reaches its target on its 125th call of
\* updateCounter and not earlier, whatever the target: when it has
\* finished it has made exactly 125 calls.
C14_Exactly125Calls ==
    (counter.starts = 1 /\ CounterFinished) => counter.calls = FrameSteps

(***************************************************************************)
(* Claims about the theme's values (SpecTheme)                             *)
(***************************************************************************)
\* C15: for every initial content of the "theme" storage key, after
\* initialization and after any sequence of toggle activations, the data-theme
\* attribute is light or dark and so is the stored value (an absent key
\* counting as light).
C15_ThemeIsLightOrDark ==
    /\ dataTheme \in {"light", "dark"}
    /\ storedTheme \in {Null, "light", "dark"}

(***************************************************************************)
(* Claims about feature items without a descriptor (SpecFeature)           *)
(***************************************************************************)
\* the notifications in the document
InDocument(ns) == {n \in DOMAIN ns : ns[n].inDocument}

\* A step that is a click on a feature item whose position has no descriptor
\* leaves every notification as it was and schedules nothing but the removal
\* of the ripple; the listener ran to its end: the item is the active one.
ClickWithoutDescriptorEffect ==
    \A i \in DOMAIN featureItems :
        (featureClicks' = featureClicks + 1 /\ lastEvent'.target = FeatureItem(i)
            /\ i >= Len(features)) =>
            /\ notifications' = notifications
            /\ InDocument(notifications') = InDocument(notifications)
            /\ Len(timers') = Len(timers) + 1
            /\ \A t \in DOMAIN timers : timers'[t] = timers[t]
            /\ timers'[Len(timers')].kind = "rippleRemove"
            /\ load'.uncaught = load.uncaught
            /\ featureItems'[i].active

\* C16: a click on a feature item whose position has no descriptor
\* (index >= 4) creates no notification and raises no error, for every such
\* index: the notifications in the document are unchanged by that click.
C16_NoDescriptorNoNotification == [][ClickWithoutDescriptorEffect]_vars

\* C16 witness: item 0 was clicked, then item 4, which has no descriptor: the
\* one notification of the first click is still the last one, in the
\* document, and item 4 is the active item.
C16_Witness ==
    /\ featureClicks = 2
    /\ lastEvent.target = FeatureItem(Len(features))
    /\ ActiveItems = {Len(features)}
    /\ Len(notifications) = 2
    /\ notifications[2].message = "Modern Design: Clean and contemporary UK-focused design"
    /\ notifications[2].inDocument

(***************************************************************************)
(* Claims about the staggered fade-ins (SpecFade)                          *)
(***************************************************************************)
\* C17: the hero element at position i of the list is marked 'fade-in'
\* i*200ms after initialization, so in list order, whichever of the four are
\* on the page: an element is not marked before its own position's delay
\* and is marked once that delay is over, an absent one is never marked and
\* raises no error.
C17_FadeInAtOwnDelay ==
    /\ load.uncaught = 0
    /\ \A i \in 0..(Len(mainElements) - 1) :
        /\ i \in heroFadeIn => (i \in load.markup.heroes /\ wallClock >= i * FadeInStagger)
        /\ (i \in load.markup.heroes /\ wallClock > i * FadeInStagger) => i \in heroFadeIn
        /\ \A j \in 0..(i - 1) :
              (i \in heroFadeIn /\ j \in load.markup.heroes) => j \in heroFadeIn

\* C17 witness: on a page with only .hero-subtitle and .features, 500ms
\* after initialization: the first is marked, the second is not yet.
C17_Witness ==
    /\ load.markup.heroes = {1, 3}
    /\ wallClock = 500
    /\ heroFadeIn = {1}

(***************************************************************************)
(* Claims about the transition marker (SpecTheme)                          *)
(***************************************************************************)
\* C18: after any sequence of toggle activations, once all scheduled timers
\* have fired, 'theme-transition' is not on the body, however the 50ms and
\* 300ms timers of different activations overlapped.
C18_MarkerNeverStuck == timers = <<>> => ~HasTransitionMarker

\* C18 witness: two activations that overlapped (the second came before the
\* commit of the first, so both committed dark on a light page), all timers
\* fired, the marker absent.
C18_Witness ==
    /\ startTheme = "light"
    /\ toggleClicks = 2
    /\ dataTheme = "dark"
    /\ timers = <<>>
    /\ ~HasTransitionMarker

(***************************************************************************)
(* Claims about visibility changes (SpecVisibility)                        *)
(***************************************************************************)
\* A step that changes the page's visibility changes the body's classes by
\* 'page-visible' only, there exactly when the page is now visible, and
\* leaves the theme, the feature items, the notifications, every pending
\* timer and all the rest of the page as they were.
VisibilityChangeEffect ==
    visibilityState' # visibilityState =>
        /\ ("page-visible" \in bodyClasses') <=> (visibilityState' = "visible")
        /\ bodyClasses' \ {"page-visible"} = bodyClasses \ {"page-visible"}
        /\ UNCHANGED <<dataTheme, storedTheme, themeToggle, scrolled, timers, notifications,
                       featureItems, counter, timeDisplay, wallClock, heroFadeIn, animateIn,
                       rootStyle, load, lastTick, commitAge>>

====
